---- MODULE Spec2Model ----
(***************************************************************************)
(* A model of the two example programs of the repository:                  *)
(*                                                                         *)
(*   cpp_example_879d5a.cpp   binary serialization of a Student record     *)
(*                            (serializeStudent, deserializeStudent, main) *)
(*   cpp_learning_ae1cc6.cpp  the <filesystem> walkthrough (main)          *)
(*                                                                         *)
(* Data representation (host: little-endian LP64, as the code writes the   *)
(* raw object representation of int, double and size_t):                   *)
(*   - a byte is a number in 0..255, a stream is a sequence of bytes;      *)
(*   - an int is an Integer, converted to and from 4 bytes;                *)
(*   - a double is its IEEE-754 binary64 object representation, 8 bytes;   *)
(*   - a size_t is its 8-byte object representation (values above 2^31     *)
(*     are never turned into a number, only recognised as too large);      *)
(*   - a std::string is a sequence of bytes.                               *)
(***************************************************************************)
EXTENDS Integers, Sequences, FiniteSets, TLC

VARIABLES
    pc,                  \* position of main() of cpp_example
    originalStudent,     \* main: Student originalStudent
    diskRoom,            \* bytes the disk still accepts for students.bin
    outFile,             \* main: std::ofstream outFile
    file,                \* content of students.bin on disk
    inFile,              \* main: std::ifstream inFile
    deserializedStudent, \* main: Student deserializedStudent
    thrown,              \* exception that left deserializeStudent, or "none"
    verdict,             \* what step 4 of main printed
    phase,               \* stream harness: "writing" or "reading"
    sink,                \* stream harness: the std::ostream written to
    written,             \* stream harness: the records serialized so far
    source,              \* stream harness: the std::istream read from
    target,              \* stream harness: the Student decoded into
    decoded,             \* stream harness: the records deserialized so far
    trailing,            \* stream harness: bytes that follow the records
    fsPc,                \* position of main() of cpp_learning
    fs,                  \* the working directory's my_demo_directory
    fsStart,             \* the working directory when the walkthrough started
    linesRead,           \* walkthrough: lines printed by step 4
    listed,              \* walkthrough: entries printed by step 5
    removed              \* walkthrough: what remove_all returned

mainVars == <<pc, originalStudent, diskRoom, outFile, file, inFile,
              deserializedStudent, thrown, verdict>>
streamVars == <<phase, sink, written, source, target, decoded, trailing>>
fsVars == <<fsPc, fs, fsStart, linesRead, listed, removed>>
vars == <<mainVars, streamVars, fsVars>>

-----------------------------------------------------------------------------
(* Bounds of the model *)

MaxNameLen == 2
MaxRecords == 2
MaxStreamNameLen == 1
MaxTrailing == 1
MaxLines == 2
MaxOthers == 2

(* Sizes of the host types *)

IdWidth == 4
GpaWidth == 8
LenWidth == 8

NameBytes == {0, 65}
TrailBytes == {255}

RECURSIVE SeqsUpTo(_, _)
SeqsUpTo(S, n) ==
    IF n = 0 THEN {<<>>}
    ELSE LET shorter == SeqsUpTo(S, n - 1)
         IN  shorter \cup {Append(s, x) : s \in {t \in shorter : Len(t) = n - 1}, x \in S}

Min(a, b) == IF a <= b THEN a ELSE b

-----------------------------------------------------------------------------
(* Object representations *)

\* The bytes of the two's complement integer v, least significant first.
RECURSIVE ToBytesLE(_, _)
ToBytesLE(v, w) ==
    IF w = 0 THEN <<>> ELSE <<v % 256>> \o ToBytesLE(v \div 256, w - 1)

\* reinterpret_cast<const char*>(&student.id), sizeof(student.id)
IntToBytes(id) == ToBytesLE(id, IdWidth)

\* The int whose object representation is b.
IntFromBytes(b) ==
    b[1] + 256 * b[2] + 65536 * b[3]
      + 16777216 * (IF b[4] >= 128 THEN b[4] - 256 ELSE b[4])

\* reinterpret_cast<const char*>(&nameLength), sizeof(nameLength)
SizeToBytes(n) == ToBytesLE(n, LenWidth)

\* Whether the size_t whose representation is b is below 2^31.
SizeFits(b) == b[4] < 128 /\ \A i \in 5..LenWidth : b[i] = 0

SizeValue(b) == b[1] + 256 * b[2] + 65536 * b[3] + 16777216 * b[4]

\* double values, as binary64 object representations
DoubleZero == <<0, 0, 0, 0, 0, 0, 0, 0>>
Double3_85 == <<205, 204, 204, 204, 204, 204, 14, 64>>
DoubleMinus1_5 == <<0, 0, 0, 0, 0, 0, 248, 191>>
DoubleNaN == <<0, 0, 0, 0, 0, 0, 248, 127>>

IsNaN(g) ==
    /\ g[8] % 128 = 127
    /\ g[7] >= 240
    /\ (g[7] % 16 # 0 \/ \E i \in 1..6 : g[i] # 0)

IsZero(g) == g[8] % 128 = 0 /\ \A i \in 1..7 : g[i] = 0

\* operator== of double
DoubleEq(a, b) == ~IsNaN(a) /\ ~IsNaN(b) /\ (a = b \/ (IsZero(a) /\ IsZero(b)))

-----------------------------------------------------------------------------
(* struct Student *)

Ids == {0, 101, -2}
Gpas == {DoubleZero, Double3_85, DoubleMinus1_5, DoubleNaN}
Names == SeqsUpTo(NameBytes, MaxNameLen)

Students == [id : Ids, name : Names, gpa : Gpas]

\* Student() : id(0), name(""), gpa(0.0)
DefaultStudent == [id |-> 0, name |-> <<>>, gpa |-> DoubleZero]

-----------------------------------------------------------------------------
(* std::ostream and std::istream *)

\* A stream opened for writing on a device that accepts `room` more bytes.
NewOstream(room) == [bytes |-> <<>>, room |-> room, bad |-> FALSE]

\* os.write(data, n): nothing when the stream is already bad; otherwise the
\* bytes the device accepts are written, and badbit is set if some are not.
\* (A buffered stream meets the rejection when it flushes, at the latest in
\* close(); the bytes that reach the device and the state main could test
\* after close() are the same.)
Write(os, data) ==
    IF os.bad THEN os
    ELSE IF Len(data) <= os.room
         THEN [os EXCEPT !.bytes = @ \o data, !.room = @ - Len(data)]
         ELSE [bytes |-> os.bytes \o SubSeq(data, 1, os.room),
               room |-> 0, bad |-> TRUE]

NewIstream(bytes) == [bytes |-> bytes, pos |-> 0, fail |-> FALSE, gcount |-> 0]

\* is.read(buf, n): nothing when the stream has failed; otherwise the bytes
\* available, up to n, are extracted, and eofbit|failbit is set if fewer than n.
Read(is, n) ==
    IF is.fail
    THEN [is |-> [is EXCEPT !.gcount = 0], data |-> <<>>]
    ELSE LET k == Min(n, Len(is.bytes) - is.pos)
         IN  [is |-> [bytes |-> is.bytes, pos |-> is.pos + k,
                      fail |-> k < n, gcount |-> k],
              data |-> SubSeq(is.bytes, is.pos + 1, is.pos + k)]

\* The buffer `old` after `data` was stored at its start.
Overlay(old, data) ==
    [i \in 1..Len(old) |-> IF i <= Len(data) THEN data[i] ELSE old[i]]

-----------------------------------------------------------------------------
(* serializeStudent *)

\* Mutant of serializeStudent: the name is written as a C string, so that it
\* ends at its first zero byte.
serializeStudent_CString(os, student) ==
    LET os1 == Write(os, IntToBytes(student.id))
        os2 == Write(os1, student.gpa)
        nameLength == Len(student.name)
        os3 == Write(os2, SizeToBytes(nameLength))
        zeros == {i \in 1..nameLength : student.name[i] = 0}
        cLength == IF zeros = {} THEN nameLength
                   ELSE (CHOOSE i \in zeros : \A j \in zeros : i <= j) - 1
    IN  Write(os3, SubSeq(student.name, 1, cLength))

\* Mutant of serializeStudent: the terminating '\0' of data() is written too.
serializeStudent_Terminator(os, student) ==
    LET os1 == Write(os, IntToBytes(student.id))
        os2 == Write(os1, student.gpa)
        nameLength == Len(student.name)
        os3 == Write(os2, SizeToBytes(nameLength))
    IN  Write(os3, student.name \o <<0>>)

serializeStudent(os, student) ==
    LET os1 == Write(os, IntToBytes(student.id))
        os2 == Write(os1, student.gpa)
        nameLength == Len(student.name)
        os3 == Write(os2, SizeToBytes(nameLength))
    IN  Write(os3, SubSeq(student.name, 1, nameLength))

-----------------------------------------------------------------------------
(* deserializeStudent *)

\* Characters the process can allocate for one string.
MaxAlloc == MaxNameLen + 2

\* What the uninitialized local nameLength may hold.
Indeterminate ==
    { SizeToBytes(0), SizeToBytes(MaxAlloc), [i \in 1..LenWidth |-> 255] }

\* The exception student.name.resize(n) throws, or "none".
ResizeThrows(n) ==
    IF n[LenWidth] >= 64 THEN "length_error"
    ELSE IF ~SizeFits(n) \/ SizeValue(n) > MaxAlloc THEN "bad_alloc"
    ELSE "none"

\* Mutant of Resize: student.name.reserve(n), which leaves the length as it was.
Resize_Reserve(name, n) == name

\* student.name.resize(n): truncated, or padded with '\0'.
Resize(name, n) == [i \in 1..n |-> IF i <= Len(name) THEN name[i] ELSE 0]

\* Mutant of deserializeStudent: one more byte than nameLength is extracted
\* after the name, as if the name were stored with a terminator.
deserializeStudent_ReadsTerminator(is, student, garbage) ==
    LET r1 == Read(is, IdWidth)
        id == IntFromBytes(Overlay(IntToBytes(student.id), r1.data))
        r2 == Read(r1.is, GpaWidth)
        gpa == Overlay(student.gpa, r2.data)
        r3 == Read(r2.is, LenWidth)
        nameLength == Overlay(garbage, r3.data)
    IN  IF ResizeThrows(nameLength) # "none"
        THEN [is |-> r3.is,
              student |-> [id |-> id, name |-> student.name, gpa |-> gpa],
              thrown |-> ResizeThrows(nameLength)]
        ELSE LET n == SizeValue(nameLength)
                 r4 == Read(r3.is, n + 1)
             IN  [is |-> r4.is,
                  student |-> [id |-> id,
                               name |-> Overlay(Resize(student.name, n), r4.data),
                               gpa |-> gpa],
                  thrown |-> "none"]

\* The stream and the Student after the call, and the exception that left it.
\* `garbage` is the indeterminate initial content of the local nameLength.
deserializeStudent(is, student, garbage) ==
    LET r1 == Read(is, IdWidth)
        id == IntFromBytes(Overlay(IntToBytes(student.id), r1.data))
        r2 == Read(r1.is, GpaWidth)
        gpa == Overlay(student.gpa, r2.data)
        r3 == Read(r2.is, LenWidth)
        nameLength == Overlay(garbage, r3.data)
    IN  IF ResizeThrows(nameLength) # "none"
        THEN [is |-> r3.is,
              student |-> [id |-> id, name |-> student.name, gpa |-> gpa],
              thrown |-> ResizeThrows(nameLength)]
        ELSE LET n == SizeValue(nameLength)
                 r4 == Read(r3.is, n)
             IN  [is |-> r4.is,
                  student |-> [id |-> id,
                               name |-> Overlay(Resize(student.name, n), r4.data),
                               gpa |-> gpa],
                  thrown |-> "none"]

-----------------------------------------------------------------------------
(* The working directory of the <filesystem> walkthrough: whether             *)
(* my_demo_directory exists, and in it my_example_file.txt and                *)
(* renamed_example_file.txt (regular files, with their number of lines) and   *)
(* a number of other entries. A file that does not exist has no lines.        *)

NoFile == [exists |-> FALSE, lines |-> 0]
RegularFile(lines) == [exists |-> TRUE, lines |-> lines]

NoDirectory == [dir |-> FALSE, example |-> NoFile, renamed |-> NoFile, others |-> 0]

\* Lines the walkthrough appends to my_example_file.txt
LinesWritten == 3

\* fs::exists(path), for dirPath, filePath and newFilePath
Exists(f, path) ==
    CASE path = "dirPath" -> f.dir
      [] path = "filePath" -> f.dir /\ f.example.exists
      [] path = "newFilePath" -> f.dir /\ f.renamed.exists

\* fs::create_directory(dirPath): nothing when it exists already
CreateDirectory(f) == IF f.dir THEN f ELSE [f EXCEPT !.dir = TRUE]

\* std::ofstream outputFile(filePath, std::ios::app) and the three lines:
\* the file is created when absent; the open fails without the directory.
AppendLines(f) ==
    IF f.dir
    THEN [f EXCEPT !.example = RegularFile(f.example.lines + LinesWritten)]
    ELSE f

\* fs::rename(filePath, newFilePath): newFilePath is replaced when it exists.
Rename(f) == [f EXCEPT !.renamed = f.example, !.example = NoFile]

\* fs::remove(newFilePath)
RemoveFile(f) == [f EXCEPT !.renamed = NoFile]

\* Number of entries of my_demo_directory
Entries(f) ==
    (IF f.example.exists THEN 1 ELSE 0) + (IF f.renamed.exists THEN 1 ELSE 0)
      + f.others

\* Mutant of RemoveAll: fs::remove(dirPath), which removes only an empty
\* directory (the filesystem_error is caught and printed).
RemoveAll_NonRecursive(f) == IF Entries(f) = 0 THEN NoDirectory ELSE f

\* fs::remove_all(dirPath): the directory and all its contents
RemoveAll(f) == NoDirectory

FsIdle ==
    /\ fsPc = "idle"
    /\ fs = NoDirectory
    /\ fsStart = NoDirectory
    /\ linesRead = 0
    /\ listed = 0
    /\ removed = 0

-----------------------------------------------------------------------------
(* main() of cpp_example: one record written to students.bin and read back.  *)
(* The model's main takes any Student of Students as originalStudent, and a  *)
(* disk that accepts any number of bytes from 0 up to a whole record.        *)

EncodedLen(student) == IdWidth + GpaWidth + LenWidth + Len(student.name)

MaxRoom == IdWidth + GpaWidth + LenWidth + MaxNameLen

StreamIdle ==
    /\ phase = "idle"
    /\ sink = NewOstream(0)
    /\ written = <<>>
    /\ source = NewIstream(<<>>)
    /\ target = DefaultStudent
    /\ decoded = <<>>
    /\ trailing = <<>>

Init ==
    /\ pc = "start"
    /\ originalStudent \in Students
    /\ diskRoom \in 0..MaxRoom
    /\ outFile = NewOstream(0)
    /\ file = <<>>
    /\ inFile = NewIstream(<<>>)
    /\ deserializedStudent = DefaultStudent
    /\ thrown = "none"
    /\ verdict = "none"
    /\ StreamIdle
    /\ FsIdle

\* std::ofstream outFile(filename, std::ios::binary); if (!outFile.is_open()) return 1;
MainOpenOut ==
    /\ pc = "start"
    /\ \E ok \in BOOLEAN :
         IF ok
         THEN /\ outFile' = NewOstream(diskRoom)
              /\ file' = <<>>
              /\ pc' = "out_open"
         ELSE /\ pc' = "exit1"
              /\ UNCHANGED <<outFile, file>>
    /\ UNCHANGED <<originalStudent, diskRoom, inFile, deserializedStudent,
                   thrown, verdict>>

\* serializeStudent(outFile, originalStudent); outFile.close();
\* std::cout << "Student serialized to " ...
MainSerialize ==
    /\ pc = "out_open"
    /\ outFile' = serializeStudent(outFile, originalStudent)
    /\ file' = outFile'.bytes
    /\ pc' = "serialized"
    /\ UNCHANGED <<originalStudent, diskRoom, inFile, deserializedStudent,
                   thrown, verdict>>

\* Student deserializedStudent; std::ifstream inFile(filename, std::ios::binary);
\* if (!inFile.is_open()) return 1;
MainOpenIn ==
    /\ pc = "serialized"
    /\ \E ok \in BOOLEAN :
         IF ok
         THEN /\ inFile' = NewIstream(file)
              /\ pc' = "in_open"
         ELSE /\ pc' = "exit1"
              /\ UNCHANGED inFile
    /\ UNCHANGED <<originalStudent, diskRoom, outFile, file,
                   deserializedStudent, thrown, verdict>>

\* deserializeStudent(inFile, deserializedStudent); inFile.close();
\* An exception leaving deserializeStudent is not caught: the program ends.
MainDeserialize ==
    /\ pc = "in_open"
    /\ \E garbage \in Indeterminate :
         LET r == deserializeStudent(inFile, deserializedStudent, garbage)
         IN  /\ inFile' = r.is
             /\ deserializedStudent' = r.student
             /\ thrown' = r.thrown
             /\ pc' = IF r.thrown = "none" THEN "deserialized" ELSE "terminated"
    /\ UNCHANGED <<originalStudent, diskRoom, outFile, file, verdict>>

\* 4. Verify that the deserialized object matches the original.
MainVerify ==
    /\ pc = "deserialized"
    /\ verdict' = IF /\ originalStudent.id = deserializedStudent.id
                     /\ originalStudent.name = deserializedStudent.name
                     /\ DoubleEq(originalStudent.gpa, deserializedStudent.gpa)
                  THEN "successful"
                  ELSE "failed"
    /\ pc' = "done"
    /\ UNCHANGED <<originalStudent, diskRoom, outFile, file, inFile,
                   deserializedStudent, thrown>>

Next ==
    \/ MainOpenOut /\ UNCHANGED <<streamVars, fsVars>>
    \/ MainSerialize /\ UNCHANGED <<streamVars, fsVars>>
    \/ MainOpenIn /\ UNCHANGED <<streamVars, fsVars>>
    \/ MainDeserialize /\ UNCHANGED <<streamVars, fsVars>>
    \/ MainVerify /\ UNCHANGED <<streamVars, fsVars>>

Spec == Init /\ [][Next]_vars

-----------------------------------------------------------------------------
(* The two functions on one stream: records are serialized one after the     *)
(* other into a std::ostream that accepts them all, bytes that belong to no  *)
(* record may follow, and deserializeStudent is then called on the resulting *)
(* std::istream, again and again into the same Student, until it fails.      *)

StreamNames == SeqsUpTo(NameBytes, MaxStreamNameLen)

StreamRecords ==
    { [id |-> 101, name |-> n, gpa |-> Double3_85] : n \in StreamNames }
      \cup { [id |-> -2, name |-> n, gpa |-> DoubleMinus1_5] : n \in StreamNames }

MainIdle ==
    /\ pc = "idle"
    /\ originalStudent = DefaultStudent
    /\ diskRoom = 0
    /\ outFile = NewOstream(0)
    /\ file = <<>>
    /\ inFile = NewIstream(<<>>)
    /\ deserializedStudent = DefaultStudent
    /\ thrown = "none"
    /\ verdict = "none"

StreamInit ==
    /\ MainIdle
    /\ FsIdle
    /\ phase = "writing"
    /\ sink = NewOstream(MaxRecords * MaxRoom)
    /\ written = <<>>
    /\ source = NewIstream(<<>>)
    /\ target = DefaultStudent
    /\ decoded = <<>>
    /\ trailing = <<>>

\* serializeStudent(sink, student) for one more record
StreamEncode ==
    /\ phase = "writing"
    /\ Len(written) < MaxRecords
    /\ \E student \in StreamRecords :
         /\ sink' = serializeStudent(sink, student)
         /\ written' = Append(written, student)
    /\ UNCHANGED <<phase, source, target, decoded, trailing>>

\* The bytes written, followed by `trailing`, become the stream to read.
StreamOpen ==
    /\ phase = "writing"
    /\ \E t \in SeqsUpTo(TrailBytes, MaxTrailing) :
         /\ trailing' = t
         /\ source' = NewIstream(sink.bytes \o t)
    /\ phase' = "reading"
    /\ UNCHANGED <<sink, written, target, decoded>>

\* deserializeStudent(source, target); each call's outcome is recorded.
StreamDecode ==
    /\ phase = "reading"
    /\ ~source.fail
    /\ \E garbage \in Indeterminate :
         LET r == deserializeStudent(source, target, garbage)
         IN  /\ source' = r.is
             /\ target' = r.student
             /\ decoded' = Append(decoded,
                    [student |-> r.student,
                     ok |-> (r.thrown = "none" /\ ~r.is.fail),
                     pos |-> r.is.pos])
             /\ phase' = IF r.thrown = "none" THEN "reading" ELSE "terminated"
    /\ UNCHANGED <<sink, written, trailing>>

StreamNext ==
    \/ StreamEncode /\ UNCHANGED <<mainVars, fsVars>>
    \/ StreamOpen /\ UNCHANGED <<mainVars, fsVars>>
    \/ StreamDecode /\ UNCHANGED <<mainVars, fsVars>>

SpecStream == StreamInit /\ [][StreamNext]_vars

-----------------------------------------------------------------------------
(* Properties of main() of cpp_example, checked under Spec *)

Returned == pc \in {"deserialized", "done"}

HasZeroByte(name) == \E i \in 1..Len(name) : name[i] = 0

\* C1: round trip. When every write of serializeStudent was accepted, the call
\* of deserializeStudent on the file, into a default-constructed Student,
\* throws nothing, leaves the stream good, and yields a Student whose id,
\* name and gpa are those of the original (gpa: the same binary64 value).
C1_RoundTrip ==
    (pc \in {"deserialized", "done", "terminated"} /\ ~outFile.bad)
        => /\ thrown = "none"
           /\ ~inFile.fail
           /\ deserializedStudent.id = originalStudent.id
           /\ deserializedStudent.name = originalStudent.name
           /\ deserializedStudent.gpa = originalStudent.gpa

C1_Witness ==
    /\ pc = "done"
    /\ ~outFile.bad
    /\ originalStudent.id = -2
    /\ originalStudent.gpa = DoubleMinus1_5
    /\ originalStudent.name = <<0, 65>>
    /\ deserializedStudent = originalStudent
    /\ verdict = "successful"

\* C2: truncation detection. When the file holds only a proper prefix of the
\* record's encoding, deserializeStudent does not return normally to main.
C2_TruncationDetected ==
    Len(inFile.bytes) < EncodedLen(originalStudent) => ~Returned

\* C3: state unchanged on error. When the call of deserializeStudent failed
\* (the stream has failed, or an exception left the call), the Student passed
\* to it is as it was before the call, which is default-constructed.
C3_UnchangedOnError ==
    (pc \in {"deserialized", "done", "terminated"}
       /\ (inFile.fail \/ thrown # "none"))
        => deserializedStudent = DefaultStudent

\* C4: layout. When every write was accepted, the file holds the 4 bytes of
\* id, then the 8 bytes of gpa, then an 8-byte length whose value is the length
\* of name, then the bytes of name and nothing else; its length is
\* 4 + 8 + 8 + Len(name), which is 20 for the empty name.
C4_Layout ==
    (pc = "serialized" /\ ~outFile.bad)
        => /\ Len(file) = IdWidth + GpaWidth + LenWidth + Len(originalStudent.name)
           /\ IntFromBytes(SubSeq(file, 1, IdWidth)) = originalStudent.id
           /\ SubSeq(file, IdWidth + 1, IdWidth + GpaWidth) = originalStudent.gpa
           /\ LET prefix == SubSeq(file, IdWidth + GpaWidth + 1,
                                   IdWidth + GpaWidth + LenWidth)
              IN  SizeFits(prefix) /\ SizeValue(prefix) = Len(originalStudent.name)
           /\ SubSeq(file, IdWidth + GpaWidth + LenWidth + 1, Len(file))
                = originalStudent.name
           /\ (originalStudent.name = <<>>
                 => Len(file) = IdWidth + GpaWidth + LenWidth)

C4_Witness ==
    /\ pc = "serialized"
    /\ ~outFile.bad
    /\ originalStudent.id = 101
    /\ originalStudent.name = <<65, 65>>
    /\ Len(file) = IdWidth + GpaWidth + LenWidth + 2

\* C6: sink failure is reported. main does not go on as after a successful
\* serialization ("Student serialized to ...") when a write was rejected.
C6_SinkFailureReported ==
    pc \in {"serialized", "in_open", "deserialized", "done", "terminated"}
        => ~outFile.bad

\* C7: length-prefix fidelity. After a call of deserializeStudent that returned
\* with the stream good, the length of the name equals the value of the length
\* prefix in the input, also when the name holds zero bytes.
C7_LengthPrefixFidelity ==
    (Returned /\ ~inFile.fail)
        => LET prefix == SubSeq(inFile.bytes, IdWidth + GpaWidth + 1,
                                IdWidth + GpaWidth + LenWidth)
           IN  Len(deserializedStudent.name) = SizeValue(prefix)

C7_Witness ==
    /\ pc = "deserialized"
    /\ ~inFile.fail
    /\ Len(deserializedStudent.name) = MaxNameLen
    /\ deserializedStudent.name[1] = 0
    /\ HasZeroByte(originalStudent.name)

\* C10: after a call of deserializeStudent that returned, the length of the
\* name equals the number of name bytes extracted from the stream.
C10_NameIsWhatWasRead ==
    Returned => Len(deserializedStudent.name) = inFile.gcount

-----------------------------------------------------------------------------
(* Properties of the two functions on one stream, checked under SpecStream *)

RECURSIVE EncodedLenSum(_, _)
EncodedLenSum(records, k) ==
    IF k = 0 THEN 0 ELSE EncodedLenSum(records, k - 1) + EncodedLen(records[k])

\* C5: exact consumption. Every successful call of deserializeStudent, the
\* i-th on the stream, leaves the read position at the end of the i-th record
\* written (the sum of 4 + 8 + 8 + name length over the first i records), so
\* before any trailing byte, and yields the i-th record written.
C5_ExactConsumption ==
    \A i \in 1..Len(decoded) :
        decoded[i].ok
            => /\ i <= Len(written)
               /\ decoded[i].pos = EncodedLenSum(written, i)
               /\ decoded[i].student = written[i]

C5_Witness ==
    /\ Len(written) = 2
    /\ Len(decoded) >= 2
    /\ decoded[1].ok /\ decoded[2].ok
    /\ written[1] # written[2]
    /\ Len(written[1].name) = MaxStreamNameLen
    /\ Len(written[2].name) = 0
    /\ Len(trailing) > 0
    /\ source.pos = Len(source.bytes) - Len(trailing)

-----------------------------------------------------------------------------
(* main() of cpp_learning: the seven steps of the walkthrough, from any       *)
(* starting state of the working directory.                                   *)

FileStates == {NoFile} \cup {RegularFile(n) : n \in 0..MaxLines}

StartStates ==
    {NoDirectory}
      \cup [dir : {TRUE}, example : FileStates, renamed : FileStates,
            others : 0..MaxOthers]

FsInit ==
    /\ MainIdle
    /\ StreamIdle
    /\ fsPc = "check"
    /\ fs \in StartStates
    /\ fsStart = fs
    /\ linesRead = 0
    /\ listed = 0
    /\ removed = 0

\* 1. Checking if a file or directory exists (prints only)
FsCheckExists ==
    /\ fsPc = "check"
    /\ fsPc' = "create"
    /\ UNCHANGED <<fs, fsStart, linesRead, listed, removed>>

\* 2. Creating a new directory
FsCreateDirectory ==
    /\ fsPc = "create"
    /\ fs' = CreateDirectory(fs)
    /\ fsPc' = "write"
    /\ UNCHANGED <<fsStart, linesRead, listed, removed>>

\* 3. Writing data to a file
FsWriteFile ==
    /\ fsPc = "write"
    /\ fs' = AppendLines(fs)
    /\ fsPc' = "read"
    /\ UNCHANGED <<fsStart, linesRead, listed, removed>>

\* 4. Reading data from a file: every line, when the file opens
FsReadFile ==
    /\ fsPc = "read"
    /\ linesRead' = IF Exists(fs, "filePath") THEN fs.example.lines ELSE 0
    /\ fsPc' = "iterate"
    /\ UNCHANGED <<fs, fsStart, listed, removed>>

\* 5. Iterating through files in a directory; fs::directory_iterator throws
\* when the directory does not exist, and nothing catches it.
FsIterate ==
    /\ fsPc = "iterate"
    /\ IF Exists(fs, "dirPath")
       THEN listed' = Entries(fs) /\ fsPc' = "rename"
       ELSE listed' = listed /\ fsPc' = "terminated"
    /\ UNCHANGED <<fs, fsStart, linesRead, removed>>

\* 6. Renaming a file or directory. Whether an existing newFilePath is
\* replaced depends on the OS: if it is not, fs::rename throws, the error is
\* caught and printed, and nothing is renamed.
FsRename ==
    /\ fsPc = "rename"
    /\ \E replaces \in BOOLEAN :
         fs' = IF Exists(fs, "filePath")
                  /\ (replaces \/ ~Exists(fs, "newFilePath"))
               THEN Rename(fs)
               ELSE fs
    /\ fsPc' = "remove"
    /\ UNCHANGED <<fsStart, linesRead, listed, removed>>

\* 7. Removing a file or directory: remove(newFilePath), remove_all(dirPath)
FsRemove ==
    /\ fsPc = "remove"
    /\ LET f1 == IF Exists(fs, "newFilePath") THEN RemoveFile(fs) ELSE fs
           f2 == IF Exists(f1, "dirPath") THEN RemoveAll(f1) ELSE f1
       IN  /\ fs' = f2
           /\ removed' = IF Exists(f1, "dirPath") /\ ~Exists(f2, "dirPath")
                         THEN Entries(f1) + 1 ELSE 0
    /\ fsPc' = "done"
    /\ UNCHANGED <<fsStart, linesRead, listed>>

FsNext ==
    \/ FsCheckExists /\ UNCHANGED <<mainVars, streamVars>>
    \/ FsCreateDirectory /\ UNCHANGED <<mainVars, streamVars>>
    \/ FsWriteFile /\ UNCHANGED <<mainVars, streamVars>>
    \/ FsReadFile /\ UNCHANGED <<mainVars, streamVars>>
    \/ FsIterate /\ UNCHANGED <<mainVars, streamVars>>
    \/ FsRename /\ UNCHANGED <<mainVars, streamVars>>
    \/ FsRemove /\ UNCHANGED <<mainVars, streamVars>>

SpecFs == FsInit /\ [][FsNext]_vars

====
